---- MODULE Spec2Model ----
(***************************************************************************)
(* Model of src/src/gpuAAK.cu: the AAK waveform driver get_waveform, the   *)
(* kernel make_waveform (CUDA build and host build of the one source       *)
(* body), the spline-segment locator find_start_inds and the rotation      *)
(* coefficients d_RotCoeff.                                                *)
(*                                                                         *)
(* Times are exact integers (ticks); the floating-point synthesis of one   *)
(* sample (trigonometry, Bessel functions) is kept as the tuple of the     *)
(* quantities it is a function of: the sample time and the eight evaluated *)
(* spline parameters.                                                      *)
(***************************************************************************)
EXTENDS Integers, Sequences, FiniteSets, TLC

VARIABLES
    \* build and inputs of one get_waveform call
    cuda,           \* TRUE: __CUDACC__ build, FALSE: host build
    nthreads,       \* threads per block of the launch (NUM_THREADS in the source)
    init_len,       \* number of trajectory knots
    out_len,        \* number of output samples
    interval_inds,  \* sample -> segment map
    stale,          \* what the staging storage held before the call
    \* get_waveform
    phase,          \* "call", "running", "returned", "error"
    err,            \* the configuration error was reported
    calls,          \* number of make_waveform invocations
    gridDimX,
    blockDimX,
    \* make_waveform
    spline_coeffs,  \* per block: the entries written so far
    start_t,        \* per block: the entries written so far
    waveform,       \* the entries written so far
    nstores,        \* history: stores made to each waveform entry
    pc,             \* per unit: position in make_waveform
    iv,             \* per unit: the loop variable i
    old_ind,        \* per unit
    start_t_i,      \* per unit
    acc,            \* per unit: cmplx(hItemp, -hIItemp)
    rdok,           \* history, per unit: every staged entry it read had been written
    \* sweep of the launch geometry
    swept,          \* units whose sample loop has been enumerated
    visits,         \* sample index -> number of units whose loop reached it
    stray,          \* indices outside 0..out_len-1 reached by some loop
    \* find_start_inds
    t_arr,          \* knot times, indexed from 0
    loc_delta_t,    \* delta_t of the locator
    new_length,
    length,         \* *length
    length_in,      \* history: *length at the call
    start_inds,     \* the entries written so far
    unit_length,    \* the entries written so far
    li,             \* the loop variable i
    lpc,            \* position in find_start_inds
    \* d_RotCoeff
    angles,         \* iota, theta_S, phi_S, theta_K, phi_K, alpha, each as <<sin, cos>>
    n_rot,          \* n[]
    L_rot,          \* L[]
    S_rot,          \* S[]
    nxL_rot,        \* nxL[]
    nxS_rot,        \* nxS[]
    rot,            \* rot[]
    floored,        \* history: norm was below 1e-6 and was set to 1e-6
    rpc             \* position in d_RotCoeff

inVars  == <<cuda, nthreads, init_len, out_len, interval_inds, stale>>
drvVars == <<phase, err, calls, gridDimX, blockDimX>>
kerVars == <<spline_coeffs, start_t, waveform, nstores, pc, iv, old_ind, start_t_i, acc, rdok>>
swpVars == <<swept, visits, stray>>
locVars == <<t_arr, loc_delta_t, new_length, length, length_in, start_inds, unit_length, li, lpc>>
rotVars == <<angles, n_rot, L_rot, S_rot, nxL_rot, nxS_rot, rot, floored, rpc>>
vars == <<inVars, drvVars, kerVars, swpVars, locVars, rotVars>>

----------------------------------------------------------------------------
(* Program constants *)

NUM_THREADS == 32
NUM_PARS == 8
MAX_SPLINE_POINTS == 160

(* Bounds of the model *)

\* threads per block when the interleavings of a block are explored
BlockThreads == 2
\* init_len + out_len of an explored CUDA call
MaxGridSize == 4
\* out_len of a host call
MaxHostLen == 2
\* out_len of a swept launch
MaxSweepLen == 70
\* find_start_inds: number of knots, last knot time, sample spacing, output length
MaxKnots == 4
MaxTime == 6
MaxDeltaT == 3
MaxNewLength == 5
\* d_RotCoeff: number of angle values tried, and the product of the denominators of
\* the six angles' sines (the exact arithmetic stays within 32-bit integers)
NumAngles == 6
MaxDenominator == 25

----------------------------------------------------------------------------
(* Inputs *)

\* interp_array[i], flattened [coefficient order][segment][parameter]
interp_array(i) == 100 + i

\* start_t_all[k]: strictly increasing knot times, the first one 0
start_t_all(k) == 2 * k

delta_t == 1

\* a storage entry that this call has not written holds its prior contents
Read(arr, key) == IF key \in DOMAIN arr THEN arr[key] ELSE stale

Store(arr, key, val) == (key :> val) @@ arr

\* number of stores recorded for an entry
Count(arr, key) == IF key \in DOMAIN arr THEN arr[key] ELSE 0

----------------------------------------------------------------------------
(* get_waveform *)

ExceedsMaxMutant(n) == n >= MAX_SPLINE_POINTS
\* the guard: init_len > MAX_SPLINE_POINTS
ExceedsMax(n) == n > MAX_SPLINE_POINTS

\* throw_python_error(str, 23): the error is reported and control leaves get_waveform
throw_python_error == "error"

\* std::ceil((out_len + NUM_THREADS - 1)/NUM_THREADS): an int division, then ceil of an int
num_blocks(olen, nthr) == (olen + nthr - 1) \div nthr

Units == 0 .. (gridDimX * blockDimX - 1)
threadIdx(u) == u % blockDimX
blockIdx(u) == u \div blockDimX
UnitsOf(b) == {u \in Units : blockIdx(u) = b}

\* the staging loops: start and increment
StageStart(u) == IF cuda THEN threadIdx(u) ELSE 0
StageIncrement == IF cuda THEN blockDimX ELSE 1
CoeffEnd == 4 * NUM_PARS * init_len

\* the sample loop: start and increment
SampleStartMutant(u) == IF cuda THEN 0 + threadIdx(u) ELSE 0
SampleStart(u) == IF cuda THEN 0 + threadIdx(u) + blockIdx(u) * blockDimX ELSE 0
SampleIncrementMutant == IF cuda THEN blockDimX ELSE 1
SampleIncrement == IF cuda THEN blockDimX * gridDimX ELSE 1

get_waveform ==
    /\ phase = "call"
    /\ IF ExceedsMax(init_len)
         THEN /\ err' = TRUE
              /\ phase' = throw_python_error
              /\ UNCHANGED <<calls, gridDimX, blockDimX, kerVars>>
         ELSE LET g == IF cuda THEN num_blocks(out_len, nthreads) ELSE 1
                  d == IF cuda THEN nthreads ELSE 1
                  U == 0 .. (g * d - 1)
              IN /\ gridDimX' = g
                 /\ blockDimX' = d
                 /\ calls' = calls + 1
                 /\ phase' = "running"
                 /\ spline_coeffs' = [b \in 0 .. (g - 1) |-> <<>>]
                 /\ start_t' = [b \in 0 .. (g - 1) |-> <<>>]
                 /\ pc' = [u \in U |-> "stage_c"]
                 /\ iv' = [u \in U |-> IF cuda THEN u % d ELSE 0]
                 /\ old_ind' = [u \in U |-> 0]
                 /\ start_t_i' = [u \in U |-> 0]
                 /\ acc' = [u \in U |-> <<>>]
                 /\ rdok' = [u \in U |-> TRUE]
                 /\ UNCHANGED <<err, waveform, nstores>>
    /\ UNCHANGED <<inVars, swpVars, locVars, rotVars>>

\* cudaDeviceSynchronize() / the return of make_waveform
Return ==
    /\ phase = "running"
    /\ \A u \in Units : pc[u] = "done"
    /\ phase' = "returned"
    /\ UNCHANGED <<err, calls, gridDimX, blockDimX, inVars, kerVars, swpVars, locVars, rotVars>>

----------------------------------------------------------------------------
(* make_waveform, one unit u *)

\* one iteration of: for (i = start; i < end; i += increment) spline_coeffs[i] = interp_array[i]
StageCoeff(u) ==
    /\ phase = "running"
    /\ pc[u] = "stage_c"
    /\ IF iv[u] < CoeffEnd
         THEN /\ spline_coeffs' = [spline_coeffs EXCEPT ![blockIdx(u)] =
                                      Store(@, iv[u], interp_array(iv[u]))]
              /\ iv' = [iv EXCEPT ![u] = @ + StageIncrement]
              /\ pc' = pc
         ELSE /\ pc' = [pc EXCEPT ![u] = "sync"]
              /\ UNCHANGED <<spline_coeffs, iv>>
    /\ UNCHANGED <<start_t, waveform, nstores, old_ind, start_t_i, acc, rdok>>
    /\ UNCHANGED <<inVars, drvVars, swpVars, locVars, rotVars>>

\* CUDA_SYNC_THREADS: the units of block b leave the barrier together
SyncThreads(b) ==
    /\ phase = "running"
    /\ b \in 0 .. (gridDimX - 1)
    /\ \A u \in UnitsOf(b) : pc[u] = "sync"
    /\ pc' = [u \in Units |-> IF blockIdx(u) = b THEN "stage_t" ELSE pc[u]]
    /\ iv' = [u \in Units |-> IF blockIdx(u) = b THEN StageStart(u) ELSE iv[u]]
    /\ UNCHANGED <<spline_coeffs, start_t, waveform, nstores, old_ind, start_t_i, acc, rdok>>
    /\ UNCHANGED <<inVars, drvVars, swpVars, locVars, rotVars>>

\* one iteration of: for (i = start; i < init_length; i += increment) start_t[i] = start_t_all[i]
StageStartT(u) ==
    /\ phase = "running"
    /\ pc[u] = "stage_t"
    /\ IF iv[u] < init_len
         THEN /\ start_t' = [start_t EXCEPT ![blockIdx(u)] =
                                Store(@, iv[u], start_t_all(iv[u]))]
              /\ iv' = [iv EXCEPT ![u] = @ + StageIncrement]
              /\ pc' = pc
         ELSE /\ pc' = [pc EXCEPT ![u] = "loop"]
              /\ iv' = [iv EXCEPT ![u] = SampleStart(u)]
              /\ UNCHANGED start_t
    /\ UNCHANGED <<spline_coeffs, waveform, nstores, old_ind, start_t_i, acc, rdok>>
    /\ UNCHANGED <<inVars, drvVars, swpVars, locVars, rotVars>>

\* cmplx(0.0, 0.0)
ZeroSample == <<>>

\* the loop test i < end and the first store of the body: waveform[i] = cmplx(0.0, 0.0)
SampleBegin(u) ==
    /\ phase = "running"
    /\ pc[u] = "loop"
    /\ IF iv[u] < out_len
         THEN /\ waveform' = Store(waveform, iv[u], ZeroSample)
              /\ nstores' = Store(nstores, iv[u], Count(nstores, iv[u]) + 1)
              /\ pc' = [pc EXCEPT ![u] = "read_t"]
         ELSE /\ pc' = [pc EXCEPT ![u] = "done"]
              /\ UNCHANGED <<waveform, nstores>>
    /\ UNCHANGED <<spline_coeffs, start_t, iv, old_ind, start_t_i, acc, rdok>>
    /\ UNCHANGED <<inVars, drvVars, swpVars, locVars, rotVars>>

\* int index = (coeff_num * init_length + old_ind) * NUM_PARS + par_num
CoeffIndex(coeff_num, ind, par_num) == (coeff_num * init_len + ind) * NUM_PARS + par_num

\* int old_ind = interval_inds[i]; double start_t_i = start_t[old_ind]
ReadKnot(u) ==
    /\ phase = "running"
    /\ pc[u] = "read_t"
    /\ LET ind == interval_inds[iv[u]]
       IN /\ old_ind' = [old_ind EXCEPT ![u] = ind]
          /\ start_t_i' = [start_t_i EXCEPT ![u] = Read(start_t[blockIdx(u)], ind)]
          /\ rdok' = [rdok EXCEPT ![u] = @ /\ ind \in DOMAIN start_t[blockIdx(u)]]
    /\ pc' = [pc EXCEPT ![u] = "read_c"]
    /\ UNCHANGED <<spline_coeffs, start_t, waveform, nstores, iv, acc>>
    /\ UNCHANGED <<inVars, drvVars, swpVars, locVars, rotVars>>

\* p_y, p_c1, p_c2, p_c3 of parameter par_num in segment ind, as read from spline_coeffs
SplineReads(coeffs, ind, par_num) ==
    [c \in 1 .. 4 |-> Read(coeffs, CoeffIndex(c - 1, ind, par_num))]

\* The sample computed from the time t = delta_t * i, the knot time and the coefficients.
\* cmplx(hItemp, -hIItemp) is a function of t and of the eight spline values
\* p_y + p_c1 * x + p_c2 * x2 + p_c3 * x3 (x = t - start_t_i); the sample is kept as the
\* tuple of t, x and the coefficients the eight values are evaluated from.
Synth(i, knot_t, coeffs, ind) ==
    LET t == delta_t * i
        x == t - knot_t
    IN <<t, x, [p \in 1 .. NUM_PARS |-> SplineReads(coeffs, ind, p - 1)]>>

\* the reads of spline_coeffs and the evaluation of the sample
Evaluate(u) ==
    /\ phase = "running"
    /\ pc[u] = "read_c"
    /\ acc' = [acc EXCEPT ![u] =
                  Synth(iv[u], start_t_i[u], spline_coeffs[blockIdx(u)], old_ind[u])]
    /\ rdok' = [rdok EXCEPT ![u] = @ /\
                  \A c \in 0 .. 3, p \in 0 .. (NUM_PARS - 1) :
                      CoeffIndex(c, old_ind[u], p) \in DOMAIN spline_coeffs[blockIdx(u)]]
    /\ pc' = [pc EXCEPT ![u] = "store"]
    /\ UNCHANGED <<spline_coeffs, start_t, waveform, nstores, iv, old_ind, start_t_i>>
    /\ UNCHANGED <<inVars, drvVars, swpVars, locVars, rotVars>>

\* waveform[i] = cmplx(hItemp, -hIItemp), and the loop's i += increment
SampleEnd(u) ==
    /\ phase = "running"
    /\ pc[u] = "store"
    /\ waveform' = Store(waveform, iv[u], acc[u])
    /\ nstores' = Store(nstores, iv[u], Count(nstores, iv[u]) + 1)
    /\ iv' = [iv EXCEPT ![u] = @ + SampleIncrement]
    /\ pc' = [pc EXCEPT ![u] = "loop"]
    /\ UNCHANGED <<spline_coeffs, start_t, old_ind, start_t_i, acc, rdok>>
    /\ UNCHANGED <<inVars, drvVars, swpVars, locVars, rotVars>>

make_waveform(u) ==
    \/ StageCoeff(u)
    \/ StageStartT(u)
    \/ SampleBegin(u)
    \/ ReadKnot(u)
    \/ Evaluate(u)
    \/ SampleEnd(u)

----------------------------------------------------------------------------
(* The sample loop of every unit of a launch, enumerated unit by unit *)

RECURSIVE LoopIndices(_, _, _)
\* the values of i in: for (i = start; i < end; i += increment)
LoopIndices(i, end, increment) ==
    IF i < end THEN {i} \cup LoopIndices(i + increment, end, increment) ELSE {}

SweepUnit ==
    /\ phase = "running"
    /\ swept \in Units
    /\ LET reached == LoopIndices(SampleStart(swept), out_len, SampleIncrement)
       IN /\ visits' = [i \in DOMAIN visits |-> visits[i] + IF i \in reached THEN 1 ELSE 0]
          /\ stray' = stray \cup (reached \ (0 .. (out_len - 1)))
    /\ swept' = swept + 1
    /\ UNCHANGED <<inVars, drvVars, kerVars, locVars, rotVars>>

----------------------------------------------------------------------------
(* find_start_inds *)

\* (int)std::ceil(t/delta_t), for t >= 0 and delta_t > 0
CeilDiv(t, dt) == (t + dt - 1) \div dt

FirstIndexMutant(t, dt) == t \div dt
\* start_inds[i] of a knot inside the window
FirstIndex(t, dt) == CeilDiv(t, dt)

ClippedIndexMutant(nl) == nl - 1
\* start_inds[i] of the first knot outside the window
ClippedIndex(nl) == nl

\* double T = (new_length - 1) * delta_t
WindowEnd == (new_length - 1) * loc_delta_t

\* the statements before the loop: start_inds[0] = 0; i = 1
LocEnter ==
    /\ lpc = "entry"
    /\ start_inds' = Store(start_inds, 0, 0)
    /\ li' = 1
    /\ lpc' = "loop"
    /\ UNCHANGED <<t_arr, loc_delta_t, new_length, length, length_in, unit_length>>
    /\ UNCHANGED <<inVars, drvVars, kerVars, swpVars, rotVars>>

\* the loop test i < *length and one run of the body
LocStep ==
    /\ lpc = "loop"
    /\ IF li < length
         THEN LET t == t_arr[li]
              IN IF t < WindowEnd
                   THEN LET s == FirstIndex(t, loc_delta_t)
                        IN /\ start_inds' = Store(start_inds, li, s)
                           /\ unit_length' = Store(unit_length, li - 1, s - start_inds[li - 1])
                           /\ li' = li + 1
                           /\ lpc' = "loop"
                   ELSE LET s == ClippedIndex(new_length)
                        IN /\ start_inds' = Store(start_inds, li, s)
                           /\ unit_length' = Store(unit_length, li - 1, s - start_inds[li - 1])
                           /\ li' = li
                           /\ lpc' = "exit"
         ELSE /\ lpc' = "exit"
              /\ UNCHANGED <<start_inds, unit_length, li>>
    /\ UNCHANGED <<t_arr, loc_delta_t, new_length, length, length_in>>
    /\ UNCHANGED <<inVars, drvVars, kerVars, swpVars, rotVars>>

\* *length = i + 1
LocExit ==
    /\ lpc = "exit"
    /\ length' = li + 1
    /\ lpc' = "done"
    /\ UNCHANGED <<t_arr, loc_delta_t, new_length, length_in, start_inds, unit_length, li>>
    /\ UNCHANGED <<inVars, drvVars, kerVars, swpVars, rotVars>>

find_start_inds == LocEnter \/ LocStep \/ LocExit

----------------------------------------------------------------------------
(* Exact arithmetic for d_RotCoeff: a number is a reduced fraction <<num, den>>, den > 0 *)

Abs(a) == IF a < 0 THEN -a ELSE a

RECURSIVE GCD(_, _)
GCD(a, b) == IF b = 0 THEN a ELSE GCD(b, a % b)

Rat(a, b) ==
    LET g == GCD(Abs(a), Abs(b))
    IN IF b < 0 THEN <<(-a) \div g, (-b) \div g>> ELSE <<a \div g, b \div g>>

RNeg(a) == <<-a[1], a[2]>>
RMul(a, b) ==
    LET g1 == GCD(Abs(a[1]), b[2])
        g2 == GCD(Abs(b[1]), a[2])
    IN <<(a[1] \div g1) * (b[1] \div g2), (a[2] \div g2) * (b[2] \div g1)>>
RAdd(a, b) ==
    LET g == GCD(a[2], b[2])
    IN Rat(a[1] * (b[2] \div g) + b[1] * (a[2] \div g), (a[2] \div g) * b[2])
RSub(a, b) == RAdd(a, RNeg(b))
RInv(a) == IF a[1] > 0 THEN <<a[2], a[1]>> ELSE <<-a[2], -a[1]>>
RDiv(a, b) == RMul(a, RInv(b))

\* an angle is given by its sine and cosine
sin(a) == a[1]
cos(a) == a[2]

----------------------------------------------------------------------------
(* d_dot_product, d_cross, d_vec_norm, d_RotCoeff *)

\* u[0]*v[0] + u[1]*v[1] + u[2]*v[2]
d_dot_product(u, v) == RAdd(RAdd(RMul(u[1], v[1]), RMul(u[2], v[2])), RMul(u[3], v[3]))

d_cross(u, v) ==
    << RSub(RMul(u[2], v[3]), RMul(u[3], v[2])),
       RSub(RMul(u[3], v[1]), RMul(u[1], v[3])),
       RSub(RMul(u[1], v[2]), RMul(u[2], v[1])) >>

\* d_vec_norm(u) is the square root of this; d_RotCoeff's outputs depend on the norms
\* only through the square of their product
d_vec_norm_squared(u) ==
    RAdd(RAdd(RMul(u[1], u[1]), RMul(u[2], u[2])), RMul(u[3], u[3]))

\* n[], S[], L[] from the angles
RotVectors ==
    /\ rpc = "entry"
    /\ LET iota == angles[1]
           theta_S == angles[2]
           phi_S == angles[3]
           theta_K == angles[4]
           phi_K == angles[5]
           alpha == angles[6]
       IN /\ n_rot' = << RMul(sin(theta_S), cos(phi_S)),
                         RMul(sin(theta_S), sin(phi_S)),
                         cos(theta_S) >>
          /\ S_rot' = << RMul(sin(theta_K), cos(phi_K)),
                         RMul(sin(theta_K), sin(phi_K)),
                         cos(theta_K) >>
          /\ L_rot' = << RAdd(RMul(RMul(cos(iota), sin(theta_K)), cos(phi_K)),
                              RMul(sin(iota),
                                   RSub(RMul(sin(alpha), sin(phi_K)),
                                        RMul(RMul(cos(alpha), cos(theta_K)), cos(phi_K))))),
                         RSub(RMul(RMul(cos(iota), sin(theta_K)), sin(phi_K)),
                              RMul(sin(iota),
                                   RAdd(RMul(sin(alpha), cos(phi_K)),
                                        RMul(RMul(cos(alpha), cos(theta_K)), sin(phi_K))))),
                         RAdd(RMul(cos(iota), cos(theta_K)),
                              RMul(RMul(sin(iota), cos(alpha)), sin(theta_K))) >>
    /\ rpc' = "cross"
    /\ UNCHANGED <<angles, nxL_rot, nxS_rot, rot, floored>>
    /\ UNCHANGED <<inVars, drvVars, kerVars, swpVars, locVars>>

\* d_cross(n,L,nxL); d_cross(n,S,nxS)
RotCross ==
    /\ rpc = "cross"
    /\ nxL_rot' = d_cross(n_rot, L_rot)
    /\ nxS_rot' = d_cross(n_rot, S_rot)
    /\ rpc' = "norm"
    /\ UNCHANGED <<angles, n_rot, L_rot, S_rot, rot, floored>>
    /\ UNCHANGED <<inVars, drvVars, kerVars, swpVars, locVars>>

\* norm < 1e-6, told from norm*norm = q: q < 1e-12, that is q.num * 10^12 < q.den
BelowFloor(q) == q[1] <= ((q[2] - 1) \div 1000000) \div 1000000

\* x / (norm*norm), where norm*norm = q, or 1e-6 * 1e-6 once norm was set to the floor
OverNormSquared(x, q) ==
    IF BelowFloor(q)
      THEN RMul(RMul(x, <<1000000, 1>>), <<1000000, 1>>)
      ELSE RDiv(x, q)

SinrotNumeratorMutant(L, S, nxL, nxS) == d_dot_product(L, nxS)
\* sinrot = dot(L,nxS); sinrot -= dot(S,nxL)
SinrotNumerator(L, S, nxL, nxS) == RSub(d_dot_product(L, nxS), d_dot_product(S, nxL))

\* norm, the floor, cosrot, sinrot and rot[]; with cosrot = dot/norm and sinrot = sn/norm,
\* rot[0] = 2*cosrot*cosrot - 1 = 2*dot*dot/(norm*norm) - 1 and
\* rot[1] = cosrot*sinrot = dot*sn/(norm*norm)
RotFinish ==
    /\ rpc = "norm"
    /\ LET normsq == RMul(d_vec_norm_squared(nxL_rot), d_vec_norm_squared(nxS_rot))
           dot == d_dot_product(nxL_rot, nxS_rot)
           sn == SinrotNumerator(L_rot, S_rot, nxL_rot, nxS_rot)
           rot0 == RSub(RMul(<<2, 1>>, OverNormSquared(RMul(dot, dot), normsq)), <<1, 1>>)
           rot1 == OverNormSquared(RMul(dot, sn), normsq)
       IN /\ floored' = BelowFloor(normsq)
          /\ rot' = <<rot0, rot1, RNeg(rot1), rot0>>
    /\ rpc' = "done"
    /\ UNCHANGED <<angles, n_rot, L_rot, S_rot, nxL_rot, nxS_rot>>
    /\ UNCHANGED <<inVars, drvVars, kerVars, swpVars, locVars>>

d_RotCoeff == RotVectors \/ RotCross \/ RotFinish

----------------------------------------------------------------------------
(* Specifications *)

StaleValues == {-1, 0}

LocIdle ==
    /\ t_arr = <<>>
    /\ loc_delta_t = 1
    /\ new_length = 0
    /\ length = 0
    /\ length_in = 0
    /\ start_inds = <<>>
    /\ unit_length = <<>>
    /\ li = 0
    /\ lpc = "idle"

RotIdle ==
    /\ angles = <<>>
    /\ n_rot = <<>>
    /\ L_rot = <<>>
    /\ S_rot = <<>>
    /\ nxL_rot = <<>>
    /\ nxS_rot = <<>>
    /\ rot = <<>>
    /\ floored = FALSE
    /\ rpc = "idle"

CallIdle ==
    /\ cuda = FALSE
    /\ nthreads = NUM_THREADS
    /\ init_len = 0
    /\ out_len = 0
    /\ interval_inds = <<>>
    /\ stale = 0
    /\ phase = "idle"
    /\ err = FALSE
    /\ calls = 0
    /\ gridDimX = 0
    /\ blockDimX = 0
    /\ spline_coeffs = <<>>
    /\ start_t = <<>>
    /\ waveform = <<>>
    /\ nstores = <<>>
    /\ pc = <<>>
    /\ iv = <<>>
    /\ old_ind = <<>>
    /\ start_t_i = <<>>
    /\ acc = <<>>
    /\ rdok = <<>>
    /\ swept = 0
    /\ visits = <<>>
    /\ stray = {}

InitCall ==
    /\ phase = "call"
    /\ err = FALSE
    /\ calls = 0
    /\ gridDimX = 0
    /\ blockDimX = 0
    /\ spline_coeffs = <<>>
    /\ start_t = <<>>
    /\ waveform = <<>>
    /\ nstores = <<>>
    /\ pc = <<>>
    /\ iv = <<>>
    /\ old_ind = <<>>
    /\ start_t_i = <<>>
    /\ acc = <<>>
    /\ rdok = <<>>
    /\ swept = 0
    /\ stray = {}
    /\ LocIdle
    /\ RotIdle

\* a CUDA call with a scaled-down block, every interleaving of its units
InitGrid ==
    /\ cuda = TRUE
    /\ nthreads = BlockThreads
    /\ init_len \in 1 .. MaxGridSize
    /\ out_len \in 1 .. (MaxGridSize - init_len)
    /\ interval_inds \in [0 .. (out_len - 1) -> 0 .. (init_len - 1)]
    /\ stale \in StaleValues
    /\ visits = <<>>
    /\ InitCall

NextCall ==
    \/ get_waveform
    \/ \E u \in Units : make_waveform(u)
    \/ \E b \in 0 .. (gridDimX - 1) : SyncThreads(b)
    \/ Return

SpecGrid == InitGrid /\ [][NextCall]_vars

\* a host call, at the small sizes and at the capacity of the staging storage
InitHost ==
    /\ cuda = FALSE
    /\ nthreads = NUM_THREADS
    /\ init_len \in {1, 2, MAX_SPLINE_POINTS, MAX_SPLINE_POINTS + 1}
    /\ out_len \in 1 .. MaxHostLen
    /\ interval_inds \in [0 .. (out_len - 1) -> {0, init_len - 1}]
    /\ stale \in StaleValues
    /\ visits = <<>>
    /\ InitCall

SpecHost == InitHost /\ [][NextCall]_vars

\* the launch of get_waveform, NUM_THREADS threads per block
InitSweep ==
    /\ cuda = TRUE
    /\ nthreads = NUM_THREADS
    /\ init_len = 1
    /\ out_len \in 1 .. MaxSweepLen
    /\ interval_inds = [i \in 0 .. (out_len - 1) |-> 0]
    /\ stale \in StaleValues
    /\ visits = [i \in 0 .. (out_len - 1) |-> 0]
    /\ InitCall

NextSweep ==
    \/ get_waveform
    \/ SweepUnit

SpecSweep == InitSweep /\ [][NextSweep]_vars

\* strictly increasing knot times, the first one 0
KnotTimes(n) ==
    {t \in [0 .. (n - 1) -> 0 .. MaxTime] :
        /\ t[0] = 0
        /\ \A a \in 1 .. (n - 1) : t[a - 1] < t[a]}

InitLoc ==
    /\ length_in \in 1 .. MaxKnots
    /\ length = length_in
    /\ t_arr \in KnotTimes(length_in)
    /\ loc_delta_t \in 1 .. MaxDeltaT
    /\ new_length \in 1 .. MaxNewLength
    /\ start_inds = <<>>
    /\ unit_length = <<>>
    /\ li = 0
    /\ lpc = "entry"
    /\ CallIdle
    /\ RotIdle

SpecLoc == InitLoc /\ [][find_start_inds]_vars

\* angles with rational sine and cosine: 0, pi/2, pi, and the angles of the 3-4-5 triangle
AngleValues ==
    << <<<<0, 1>>, <<1, 1>>>>,
       <<<<1, 1>>, <<0, 1>>>>,
       <<<<0, 1>>, <<-1, 1>>>>,
       <<<<3, 5>>, <<4, 5>>>>,
       <<<<4, 5>>, <<3, 5>>>>,
       <<<<4, 5>>, <<-3, 5>>>>,
       <<<<-3, 5>>, <<4, 5>>>>,
       <<<<-4, 5>>, <<-3, 5>>>> >>

RECURSIVE DenominatorProduct(_, _)
DenominatorProduct(a, k) ==
    IF k = 0 THEN 1 ELSE DenominatorProduct(a, k - 1) * sin(a[k])[2]

InitRot ==
    /\ angles \in [1 .. 6 -> {AngleValues[k] : k \in 1 .. NumAngles}]
    /\ \A k \in 1 .. 6 : RAdd(RMul(sin(angles[k]), sin(angles[k])),
                              RMul(cos(angles[k]), cos(angles[k]))) = <<1, 1>>
    /\ DenominatorProduct(angles, 6) <= MaxDenominator
    /\ n_rot = <<>>
    /\ L_rot = <<>>
    /\ S_rot = <<>>
    /\ nxL_rot = <<>>
    /\ nxS_rot = <<>>
    /\ rot = <<>>
    /\ floored = FALSE
    /\ rpc = "entry"
    /\ CallIdle
    /\ LocIdle

SpecRot == InitRot /\ [][d_RotCoeff]_vars

----------------------------------------------------------------------------
(* Claims about get_waveform and make_waveform *)

\* C1: a call with init_len > 160 reports the configuration error and neither invokes
\* make_waveform nor stages a coefficient nor writes an output entry; a call with
\* init_len <= 160 reports no error and invokes make_waveform exactly once.
C1_OversizedRejected ==
    /\ phase = "call" => (~err /\ calls = 0)
    /\ (init_len > 160 /\ phase # "call") =>
          /\ err
          /\ phase = "error"
          /\ calls = 0
          /\ pc = <<>>
          /\ spline_coeffs = <<>>
          /\ start_t = <<>>
          /\ waveform = <<>>
    /\ (init_len <= 160 /\ phase # "call") =>
          /\ ~err
          /\ phase \in {"running", "returned"}
          /\ calls = 1

\* C1 witness: a call with 161 knots has been rejected
C1_Witness ==
    /\ init_len = 161
    /\ phase = "error"
    /\ err
    /\ calls = 0
    /\ waveform = <<>>

Staging(u) == pc[u] \in {"stage_c", "sync", "stage_t"}
MidSample(u) == pc[u] \in {"read_t", "read_c", "store"}

\* C2: in the CUDA build no unit has read a staged knot time or spline coefficient for
\* its sample while a unit of its block is still staging coefficients or knot times.
C2_ReadsAfterAllStaged ==
    \A u \in DOMAIN pc :
        pc[u] \in {"read_c", "store"} =>
            \A v \in UnitsOf(blockIdx(u)) : ~Staging(v)

\* C3 as claimed: every output entry is stored exactly once during a call, and holds no
\* intermediate value while its sample is being computed.
C3_StoredExactlyOnce ==
    /\ \A i \in DOMAIN nstores : nstores[i] <= 1
    /\ \A u \in DOMAIN pc : MidSample(u) => Count(nstores, iv[u]) = 0
    /\ phase = "returned" => \A i \in 0 .. (out_len - 1) : Count(nstores, i) = 1

\* C3 as amended: every output entry is stored exactly twice during a successful call,
\* first cmplx(0,0) when its sample's computation starts, then the computed sample when
\* it ends; in between the entry holds the intermediate value cmplx(0,0).
C3_StoredExactlyTwice ==
    /\ DOMAIN nstores \subseteq 0 .. (out_len - 1)
    /\ DOMAIN waveform = DOMAIN nstores
    /\ \A i \in DOMAIN nstores : nstores[i] \in {1, 2}
    /\ \A i \in DOMAIN nstores :
          nstores[i] = 1 <=> \E u \in DOMAIN pc : MidSample(u) /\ iv[u] = i
    /\ \A i \in DOMAIN nstores :
          IF nstores[i] = 1 THEN waveform[i] = ZeroSample ELSE waveform[i] # ZeroSample
    /\ phase = "returned" => \A i \in 0 .. (out_len - 1) : Count(nstores, i) = 2

\* C3 witness: a call over two blocks has returned with every entry stored twice
C3_Witness ==
    /\ phase = "returned"
    /\ gridDimX = 2
    /\ \A i \in 0 .. (out_len - 1) : Count(nstores, i) = 2 /\ waveform[i] # ZeroSample

\* C4: with get_waveform's launch (32 threads per block, num_blocks from out_len) the
\* sample loops of the units reach every index of 0..out_len-1 exactly once and no
\* index outside it, so no two units store to the same output slot.
C4_OneUnitPerSample ==
    phase = "running" =>
        /\ blockDimX = 32
        /\ gridDimX >= 1
        /\ stray = {}
        /\ \A i \in 0 .. (out_len - 1) : visits[i] <= 1
        /\ swept = gridDimX * blockDimX => \A i \in 0 .. (out_len - 1) : visits[i] = 1

\* C4 witness: a launch of three blocks has been swept, every sample reached once
C4_Witness ==
    /\ phase = "running"
    /\ gridDimX = 3
    /\ swept = gridDimX * blockDimX
    /\ \A i \in 0 .. (out_len - 1) : visits[i] = 1

\* what the inputs alone determine for sample i
Expected(i) ==
    Synth(i, start_t_all(interval_inds[i]),
          [j \in 0 .. (CoeffEnd - 1) |-> interp_array(j)], interval_inds[i])

\* C5: the waveform a call returns is a function of its inputs only: it does not depend
\* on the order in which the units ran nor on the prior contents of the staging storage.
C5_OutputFunctionOfInputs ==
    phase = "returned" =>
        waveform = [i \in 0 .. (out_len - 1) |-> Expected(i)]

\* C10: every index used on the staging arrays is inside their fixed capacity, and every
\* entry a unit reads had been written by the staging of this call.
C10_StagingInBoundsAndWritten ==
    /\ \A b \in DOMAIN spline_coeffs :
          DOMAIN spline_coeffs[b] \subseteq 0 .. (8 * 4 * 160 - 1)
    /\ \A b \in DOMAIN start_t :
          DOMAIN start_t[b] \subseteq 0 .. (160 - 1)
    /\ \A u \in DOMAIN pc :
          /\ pc[u] \in {"read_c", "store"} => old_ind[u] \in 0 .. (160 - 1)
          /\ pc[u] = "store" =>
                \A c \in 0 .. 3, p \in 0 .. 7 :
                    CoeffIndex(c, old_ind[u], p) \in 0 .. (8 * 4 * 160 - 1)
          /\ rdok[u]

----------------------------------------------------------------------------
(* Claims about find_start_inds *)

\* the knots i >= 1 whose time is outside the window
Outside == {i \in 1 .. (length_in - 1) : t_arr[i] >= WindowEnd}
FirstOutside == CHOOSE i \in Outside : \A j \in Outside : i <= j

RECURSIVE SumLengths(_)
\* unit_length[0] + ... + unit_length[n-1]
SumLengths(n) == IF n = 0 THEN 0 ELSE SumLengths(n - 1) + unit_length[n - 1]

\* C6 as claimed: when no knot 1..length-1 is outside the window (the clipping branch is
\* never taken), unit_length[0..length-2] sum to new_length.
C6_SumIsOutputLength ==
    (lpc = "done" /\ length_in >= 2 /\ Outside = {}) =>
        SumLengths(length_in - 1) = new_length

\* C6 as amended: the recorded lengths sum to new_length exactly when the clipping branch
\* is taken (at knot i they are unit_length[0..i-1]); when it is never taken,
\* unit_length[0..length-2] sum to ceil(t_arr[length-1]/delta_t), which is below new_length.
C6_SumIsOutputLengthWhenClipped ==
    lpc = "done" =>
        IF Outside # {}
          THEN /\ DOMAIN unit_length = 0 .. (FirstOutside - 1)
               /\ SumLengths(FirstOutside) = new_length
          ELSE /\ DOMAIN unit_length = 0 .. (length_in - 2)
               /\ SumLengths(length_in - 1) = CeilDiv(t_arr[length_in - 1], loc_delta_t)
               /\ SumLengths(length_in - 1) < new_length

\* C6 witness: the window was clipped at the third knot or later and the lengths sum
\* to new_length
C6_Witness ==
    /\ lpc = "done"
    /\ Outside # {}
    /\ FirstOutside >= 2
    /\ SumLengths(FirstOutside) = new_length

\* C8: every sample j of a recorded segment k has t_arr[k] <= j*delta_t, and k is the
\* greatest knot with time <= j*delta_t unless k is the clipped trailing segment;
\* start_inds is non-decreasing and every recorded unit_length is >= 0.
C8_SegmentsOrderedAndContiguous ==
    /\ \A k \in DOMAIN unit_length :
          /\ unit_length[k] >= 0
          /\ \A j \in start_inds[k] .. (start_inds[k] + unit_length[k] - 1) :
                /\ t_arr[k] <= j * loc_delta_t
                /\ (k + 1) \notin Outside =>
                      \A m \in 0 .. (length_in - 1) : t_arr[m] <= j * loc_delta_t => m <= k
    /\ \A a, b \in DOMAIN start_inds : a <= b => start_inds[a] <= start_inds[b]

\* C8 witness: three segments were recorded, the last one clipped, one of them holding
\* at least two samples and its knot time not a multiple of delta_t
C8_Witness ==
    /\ lpc = "done"
    /\ DOMAIN unit_length = 0 .. 2
    /\ 3 \in Outside
    /\ \E k \in 1 .. 2 : unit_length[k] >= 2 /\ t_arr[k] % loc_delta_t # 0

\* C9: on return *length never exceeds the knot count L it was called with: it is i+1
\* for the first knot i outside the window, L when there is none, and start_inds was
\* written at every index below it.
C9_LengthNeverGrows ==
    (lpc = "done" /\ length_in >= 2) =>
        /\ length <= length_in
        /\ length = (IF Outside # {} THEN FirstOutside + 1 ELSE length_in)
        /\ \A i \in 0 .. (length - 1) : i \in DOMAIN start_inds

----------------------------------------------------------------------------
(* Claims about d_RotCoeff *)

\* C7: rot[0] = rot[3] and rot[1] = -rot[2]; and when the norm floor is not engaged,
\* rot[0]^2 + rot[1]^2 = 1.
C7_RotationMatrix ==
    rpc = "done" =>
        /\ rot[1] = rot[4]
        /\ rot[2] = RNeg(rot[3])
        /\ ~floored => RAdd(RMul(rot[1], rot[1]), RMul(rot[2], rot[2])) = <<1, 1>>

\* C7 witness: the floor was not engaged and the rotation is by an oblique angle
C7_Witness ==
    /\ rpc = "done"
    /\ ~floored
    /\ rot[1][1] # 0
    /\ rot[2][1] # 0
    /\ RAdd(RMul(rot[1], rot[1]), RMul(rot[2], rot[2])) = <<1, 1>>

====
